---- MODULE Spec2Model ----
(***************************************************************************)
(* DatabaseService of the quiz platform: the tables Room, Quiz, Question, *)
(* Choice and AnswerEntry, and the service's operations as they run for   *)
(* concurrent requests.  Every `await this.pool.query(...)` is one step:  *)
(* the statement executes atomically in the database, and statements of   *)
(* different requests interleave between the awaits of one operation.     *)
(* No operation uses a transaction.                                       *)
(***************************************************************************)
EXTENDS Integers, Sequences, FiniteSets, TLC

VARIABLES Room, Quiz, Question, Choice, AnswerEntry, pc, loc

vars == <<Room, Quiz, Question, Choice, AnswerEntry, pc, loc>>

tables == <<Room, Quiz, Question, Choice, AnswerEntry>>

(* ---------------------------- bounds ---------------------------------- *)

\* Size of the token space uuidv4().slice(0, 8) is drawn from.
NumTokens == 2
\* Rows the requests may insert in each table when a presenter's request and
\* a participant's request run all the operations (Spec).
MaxRooms == 1
MaxQuizzes == 1
MaxQuestions == 1
MaxChoices == 2
MaxAnswers == 2
\* Rows two requests that create rooms may insert (SpecKeys, SpecLive).
KeysMaxRooms == 3
\* Rows two requests that create quizzes and questions may insert (SpecRace).
RaceMaxQuizzes == 2
RaceMaxQuestions == 2
\* Rows two requests that create and update questions may insert
\* (SpecQuestion).
EditMaxQuestions == 2
EditMaxChoices == 3
\* Rows a presenter's request may insert while a participant's request
\* answers and aggregates (SpecAgg).
AggMaxRooms == 1
AggMaxQuizzes == 2
AggMaxQuestions == 2
AggMaxChoices == 1
AggMaxAnswers == 2

\* Concurrent requests (each runs one service operation at a time).
Req == {"r1", "r2"}

Tokens == 1..NumTokens

\* The value of an absent argument (undefined) and of a column left NULL.
Undefined == "undefined"
Null == "NULL"
\* An absent choiceLabels argument (no list of labels holds Undefined).
NoChoiceLabels == <<Undefined>>

\* The parent ids (room_id of a quiz, quiz_id of a question) calls pass.
ParentIds == {1, 2}

RoomNames == {"Room1"}
Presenters == {"p1"}
Participants == {"u1"}
Titles == {"Q1"}
NewTitles == {"Q2"}
Durations == {10}
NewDurations == {20}
QuestionLabels == {"2+2?"}
NewQuestionLabels == {"3+3?"}
CorrectAnswers == {"4"}
NewCorrectAnswers == {"6"}
AnswerLabels == {"a", "b"}
ChoiceLabelLists == {<<>>, <<"a">>, <<"a", "b">>}

(* ---------------------------- helpers --------------------------------- *)

Last(s) == s[Len(s)]

\* A request that is not inside an operation.
Free(r) == pc[r] \in {"idle", "done", "failed"}

\* The row sequences a SELECT without ORDER BY may return for the stored
\* rows s: SQL leaves the order of such a result unspecified.
Unordered(s) ==
    { [i \in 1..Len(s) |-> s[p[i]]] : p \in Permutations(1..Len(s)) }

\* Rows ORDER BY question_id, ascending.
RECURSIVE OrderByQuestionId(_)
OrderByQuestionId(S) ==
    IF S = {} THEN <<>>
    ELSE LET m == CHOOSE x \in S : \A y \in S : x.question_id <= y.question_id
         IN  <<m>> \o OrderByQuestionId(S \ {m})

(* ---------------------------- initial state --------------------------- *)

Init ==
    /\ Room = <<>>
    /\ Quiz = <<>>
    /\ Question = <<>>
    /\ Choice = <<>>
    /\ AnswerEntry = <<>>
    /\ pc = [r \in Req |-> "idle"]
    /\ loc = [r \in Req |-> [op |-> "none"]]

(* ------------------- generateUniqueEventKey / createRoom -------------- *)

\* Requests that hold or are producing an event key for a room insert.
RoomsInFlight == Cardinality({r \in Req : pc[r] \in {"gen", "keyed"}})

\* SELECT event_key FROM Room WHERE event_key = '${eventKey}'.  The mutant
\* leaves out the WHERE clause.
ExistingKeysAnyRoom(eventKey) == Room

ExistingKeys(eventKey) == SelectSeq(Room, LAMBDA row : row.event_key = eventKey)

\* The do-while condition, existingKeys.rowCount > 0, inverted by the mutant.
LoopAgainInverted(rowCount) == rowCount = 0

LoopAgain(rowCount) == rowCount > 0

\* A request enters generateUniqueEventKey.
StartGenerate(r) ==
    /\ Free(r)
    /\ pc' = [pc EXCEPT ![r] = "gen"]
    /\ loc' = [loc EXCEPT ![r] = [op |-> "createRoom", collided |-> FALSE]]
    /\ UNCHANGED tables

\* One iteration of the do-while loop: draw a token, look it up, test.
\* collided records that an iteration of this call found a stored key.
GenerateAttempt(r, token) ==
    /\ pc[r] = "gen"
    /\ LET existingKeys == ExistingKeys(token)
       IN  IF LoopAgain(Len(existingKeys))
           THEN /\ pc' = pc
                /\ loc' = [loc EXCEPT ![r] =
                              [op |-> "createRoom", collided |-> TRUE,
                               eventKey |-> token]]
           ELSE /\ pc' = [pc EXCEPT ![r] = "keyed"]
                /\ loc' = [loc EXCEPT ![r] =
                              [op |-> "createRoom", collided |-> loc[r].collided,
                               eventKey |-> token]]
    /\ UNCHANGED tables

\* createRoom, the INSERT: called with the key generateUniqueEventKey returned.
CreateRoomInsert(r, name, presenterId) ==
    /\ pc[r] = "keyed"
    /\ Room' = Append(Room, [room_id |-> Len(Room) + 1,
                             event_key |-> loc[r].eventKey,
                             room_name |-> name,
                             presenter_id |-> presenterId])
    /\ pc' = [pc EXCEPT ![r] = "room_reread"]
    /\ UNCHANGED <<Quiz, Question, Choice, AnswerEntry, loc>>

\* createRoom, the SELECT * FROM Room WHERE event_key = $1 it returns.
CreateRoomReread(r) ==
    /\ pc[r] = "room_reread"
    /\ \E rows \in Unordered(ExistingKeys(loc[r].eventKey)) :
          loc' = [loc EXCEPT ![r] = [op |-> "createRoom", ret |-> rows]]
    /\ pc' = [pc EXCEPT ![r] = "done"]
    /\ UNCHANGED tables

(* ------------------------------ createQuiz ---------------------------- *)

\* Another request's insert under the same parent lands between r's own
\* insert and its reread: noted in the requests that are waiting to reread.
NoteInsert(l, r, waiting, parent) ==
    [x \in Req |->
        IF x = r THEN l[r]
        ELSE IF pc[x] = waiting /\ l[x].parent = parent
             THEN [l[x] EXCEPT !.interfered = TRUE]
             ELSE l[x]]

\* createQuiz, the INSERT.  mine is the quiz_id the database gave the row.
CreateQuizInsert(r, maxDuration, title, roomId) ==
    /\ Free(r)
    /\ Quiz' = Append(Quiz, [quiz_id |-> Len(Quiz) + 1,
                             max_duration |-> maxDuration,
                             title |-> title,
                             room_id |-> roomId])
    /\ pc' = [pc EXCEPT ![r] = "quiz_reread"]
    /\ loc' = NoteInsert(
                 [loc EXCEPT ![r] = [op |-> "createQuiz", parent |-> roomId,
                                     mine |-> Len(Quiz) + 1,
                                     interfered |-> FALSE]],
                 r, "quiz_reread", roomId)
    /\ UNCHANGED <<Room, Question, Choice, AnswerEntry>>

\* The row LIMIT 1 keeps of rows sorted by id: the first after ORDER BY id
\* DESC is the row of highest id.  The mutant sorts ascending.
TopAscending(ids) == CHOOSE i \in ids : \A j \in ids : i <= j

TopDescending(ids) == CHOOSE i \in ids : \A j \in ids : i >= j

\* SELECT * FROM Quiz WHERE room_id = $1 ORDER BY quiz_id DESC LIMIT 1
LatestQuiz(roomId) ==
    LET rows == SelectSeq(Quiz, LAMBDA row : row.room_id = roomId)
        top  == TopDescending({rows[i].quiz_id : i \in DOMAIN rows})
    IN  IF rows = <<>> THEN <<>>
        ELSE SelectSeq(rows, LAMBDA row : row.quiz_id = top)

\* createQuiz, the reread it returns.
CreateQuizReread(r) ==
    /\ pc[r] = "quiz_reread"
    /\ pc' = [pc EXCEPT ![r] = "done"]
    /\ loc' = [loc EXCEPT ![r] = [op |-> "createQuiz", mine |-> loc[r].mine,
                                  interfered |-> loc[r].interfered,
                                  ret |-> LatestQuiz(loc[r].parent)]]
    /\ UNCHANGED tables

(* --------------- createQuestionAndChoices / createQuestion ------------ *)

\* Choice rows the running createQuestionAndChoices calls may still insert.
ChoicesInFlight(c) ==
    IF c = NoChoiceLabels THEN 0 ELSE Len(c)

PendingChoices ==
    LET Pending(r) ==
            IF pc[r] = "question_reread" THEN ChoicesInFlight(loc[r].choiceLabels)
            ELSE IF pc[r] = "choices"
                 THEN Len(loc[r].choiceLabels) + 1 - loc[r].idx
                 ELSE 0
        RECURSIVE Sum(_)
        Sum(S) == IF S = {} THEN 0
                  ELSE LET x == CHOOSE y \in S : TRUE
                       IN  Pending(x) + Sum(S \ {x})
    IN  Sum(Req)

\* createQuestion, the INSERT: with correct_answer when it is given, and
\* leaving the column NULL when it is undefined.
InsertedQuestion(questionLabel, correctAnswer, quizId) ==
    [question_id |-> Len(Question) + 1,
     question_label |-> questionLabel,
     correct_answer |-> IF correctAnswer # Undefined THEN correctAnswer ELSE Null,
     quiz_id |-> quizId]

CreateQuestionInsert(r, questionLabel, correctAnswer, quizId, choiceLabels) ==
    /\ Free(r)
    /\ Question' = Append(Question,
                          InsertedQuestion(questionLabel, correctAnswer, quizId))
    /\ pc' = [pc EXCEPT ![r] = "question_reread"]
    /\ loc' = NoteInsert(
                 [loc EXCEPT ![r] = [op |-> "createQuestionAndChoices",
                                     parent |-> quizId,
                                     choiceLabels |-> choiceLabels,
                                     mine |-> Len(Question) + 1,
                                     interfered |-> FALSE]],
                 r, "question_reread", quizId)
    /\ UNCHANGED <<Room, Quiz, Choice, AnswerEntry>>

\* SELECT * FROM Question WHERE quiz_id = $1 ORDER BY question_id DESC LIMIT 1
LatestQuestion(quizId) ==
    LET rows == SelectSeq(Question, LAMBDA row : row.quiz_id = quizId)
        top  == TopDescending({rows[i].question_id : i \in DOMAIN rows})
    IN  IF rows = <<>> THEN <<>>
        ELSE SelectSeq(rows, LAMBDA row : row.question_id = top)

\* createQuestion, the reread; then createQuestionAndChoices takes
\* question.rows[0]['question_id'] when choice labels were given.
CreateQuestionReread(r) ==
    /\ pc[r] = "question_reread"
    /\ LET question == LatestQuestion(loc[r].parent)
           base == [op |-> "createQuestionAndChoices", mine |-> loc[r].mine,
                    interfered |-> loc[r].interfered, ret |-> question,
                    choiceLabels |-> loc[r].choiceLabels]
       IN  IF loc[r].choiceLabels # NoChoiceLabels /\ loc[r].choiceLabels # <<>>
           THEN /\ pc' = [pc EXCEPT ![r] = "choices"]
                /\ loc' = [loc EXCEPT ![r] =
                              [op |-> base.op, mine |-> base.mine,
                               interfered |-> base.interfered, ret |-> base.ret,
                               choiceLabels |-> base.choiceLabels,
                               questionId |-> question[1].question_id,
                               idx |-> 1]]
           ELSE /\ pc' = [pc EXCEPT ![r] = "done"]
                /\ loc' = [loc EXCEPT ![r] = base]
    /\ UNCHANGED tables

\* createChoices, one iteration: INSERT INTO Choice (choice_label, question_id).
\* by is the call that inserted the row (not a column).
CreateChoiceInsert(r) ==
    /\ pc[r] = "choices"
    /\ Choice' = Append(Choice, [choice_id |-> Len(Choice) + 1,
                                 choice_label |-> loc[r].choiceLabels[loc[r].idx],
                                 question_id |-> loc[r].questionId,
                                 by |-> <<r, loc[r].mine>>])
    /\ loc' = [loc EXCEPT ![r].idx = @ + 1]
    /\ pc' = [pc EXCEPT ![r] =
                 IF loc[r].idx = Len(loc[r].choiceLabels) THEN "done" ELSE "choices"]
    /\ UNCHANGED <<Room, Quiz, Question, AnswerEntry>>

\* createChoices, one iteration whose query fails: the rejection propagates
\* out of createChoices and createQuestionAndChoices.  The mutant undoes
\* the call's earlier inserts, as a transaction would.
CreateChoiceFailRollback(r) ==
    /\ pc[r] = "choices"
    /\ pc' = [pc EXCEPT ![r] = "failed"]
    /\ Choice' = SelectSeq(Choice, LAMBDA row : row.by # <<r, loc[r].mine>>)
    /\ UNCHANGED <<Room, Quiz, Question, AnswerEntry, loc>>

CreateChoiceFail(r) ==
    /\ pc[r] = "choices"
    /\ pc' = [pc EXCEPT ![r] = "failed"]
    /\ UNCHANGED <<tables, loc>>

(* ----------------------- updateQuiz / updateQuestion ------------------ *)

\* UPDATE Quiz SET max_duration = $1, title = $2 WHERE quiz_id = $3
UpdateQuizUpdate(r, quizId, maxDuration, title) ==
    /\ Free(r)
    /\ Quiz' = [i \in DOMAIN Quiz |->
                   IF Quiz[i].quiz_id = quizId
                   THEN [Quiz[i] EXCEPT !.max_duration = maxDuration,
                                        !.title = title]
                   ELSE Quiz[i]]
    /\ pc' = [pc EXCEPT ![r] = "quiz_updated"]
    /\ loc' = [loc EXCEPT ![r] = [op |-> "updateQuiz", quizId |-> quizId]]
    /\ UNCHANGED <<Room, Question, Choice, AnswerEntry>>

\* SELECT * FROM Quiz WHERE quiz_id = $1 LIMIT 1
UpdateQuizReread(r) ==
    /\ pc[r] = "quiz_updated"
    /\ pc' = [pc EXCEPT ![r] = "done"]
    /\ loc' = [loc EXCEPT ![r] =
                  [op |-> "updateQuiz",
                   ret |-> SelectSeq(Quiz, LAMBDA row : row.quiz_id = loc[r].quizId)]]
    /\ UNCHANGED tables

\* The row an updateQuestion statement leaves in place of row: only
\* question_label is SET when correctAnswer is undefined.  The mutant passes
\* the undefined answer on to the column.
UpdatedQuestionAlways(row, questionLabel, correctAnswer) ==
    [row EXCEPT !.question_label = questionLabel,
                !.correct_answer =
                    IF correctAnswer = Undefined THEN Null ELSE correctAnswer]

UpdatedQuestion(row, questionLabel, correctAnswer) ==
    IF correctAnswer = Undefined
    THEN [row EXCEPT !.question_label = questionLabel]
    ELSE [row EXCEPT !.question_label = questionLabel,
                     !.correct_answer = correctAnswer]

UpdateQuestionUpdate(r, questionId, questionLabel, correctAnswer) ==
    /\ Free(r)
    /\ Question' = [i \in DOMAIN Question |->
                       IF Question[i].question_id = questionId
                       THEN UpdatedQuestion(Question[i], questionLabel, correctAnswer)
                       ELSE Question[i]]
    /\ pc' = [pc EXCEPT ![r] = "question_updated"]
    /\ loc' = [loc EXCEPT ![r] = [op |-> "updateQuestion",
                                  questionId |-> questionId,
                                  correctAnswer |-> correctAnswer]]
    /\ UNCHANGED <<Room, Quiz, Choice, AnswerEntry>>

\* SELECT * FROM Question WHERE question_id = $1 LIMIT 1
UpdateQuestionReread(r) ==
    /\ pc[r] = "question_updated"
    /\ pc' = [pc EXCEPT ![r] = "done"]
    /\ loc' = [loc EXCEPT ![r] =
                  [op |-> "updateQuestion",
                   ret |-> SelectSeq(Question,
                                 LAMBDA row : row.question_id = loc[r].questionId)]]
    /\ UNCHANGED tables

(* ------------------------------ createAnswer -------------------------- *)

\* INSERT INTO AnswerEntry (question_id, participant_id, answer_label): the
\* rows the statement adds.  The mutant inserts only for a stored question.
InsertedAnswerIfQuestion(questionId, participantId, answerLabel) ==
    IF \E i \in DOMAIN Question : Question[i].question_id = questionId
    THEN <<[question_id |-> questionId,
            participant_id |-> participantId,
            answer_label |-> answerLabel]>>
    ELSE <<>>

InsertedAnswer(questionId, participantId, answerLabel) ==
    <<[question_id |-> questionId,
       participant_id |-> participantId,
       answer_label |-> answerLabel]>>

\* mine is the position the row of this call takes in the table.
CreateAnswer(r, questionId, participantId, answerLabel) ==
    /\ Free(r)
    /\ AnswerEntry' =
           AnswerEntry \o InsertedAnswer(questionId, participantId, answerLabel)
    /\ pc' = [pc EXCEPT ![r] = "done"]
    /\ loc' = [loc EXCEPT ![r] = [op |-> "createAnswer",
                                  mine |-> Len(AnswerEntry) + 1]]
    /\ UNCHANGED <<Room, Quiz, Question, Choice>>

(* ------------------------- getAllAnswersByEventKey -------------------- *)

\* The rows of FROM Question qn, Quiz qz, Room r WHERE ...: one per
\* combination of rows that satisfies the conditions.  The mutant drops
\* the condition that ties the quiz to the room.
JoinedAnyRoom(eventKey) ==
    { <<qn, qz, m>> \in (DOMAIN Question) \X (DOMAIN Quiz) \X (DOMAIN Room) :
        /\ Room[m].event_key = eventKey
        /\ Question[qn].quiz_id = Quiz[qz].quiz_id }

Joined(eventKey) ==
    { <<qn, qz, m>> \in (DOMAIN Question) \X (DOMAIN Quiz) \X (DOMAIN Room) :
        /\ Room[m].event_key = eventKey
        /\ Room[m].room_id = Quiz[qz].room_id
        /\ Question[qn].quiz_id = Quiz[qz].quiz_id }

\* getAllQuestionsByEventKey: the joined rows' question columns,
\* ORDER BY qn.question_id.  j tells apart the rows of one question.
AllQuestionsByEventKey(eventKey) ==
    LET rows == OrderByQuestionId(
                    { [question_id |-> Question[j[1]].question_id, j |-> j] :
                          j \in Joined(eventKey) })
    IN  [n \in DOMAIN rows |-> Question[rows[n].j[1]]]

\* SELECT * FROM Choice c WHERE c.question_id = $1
AllChoicesByQuestion(questionId) ==
    SelectSeq(Choice, LAMBDA row : row.question_id = questionId)

\* SELECT * FROM AnswerEntry WHERE question_id = $1
AllAnswersByQuestion(questionId) ==
    SelectSeq(AnswerEntry, LAMBDA row : row.question_id = questionId)

\* The first query and the mapping of its rows to Question objects.
AggregateQuestions(r, eventKey) ==
    /\ Free(r)
    /\ LET rows == AllQuestionsByEventKey(eventKey)
           questions == [n \in DOMAIN rows |->
                            [questionId |-> rows[n].question_id,
                             correctAnswer |-> rows[n].correct_answer,
                             questionLabel |-> rows[n].question_label,
                             quizId |-> rows[n].quiz_id]]
       IN  IF questions = <<>>
           THEN /\ pc' = [pc EXCEPT ![r] = "done"]
                /\ loc' = [loc EXCEPT ![r] =
                              [op |-> "getAllAnswersByEventKey",
                               eventKey |-> eventKey, ret |-> <<>>]]
           ELSE /\ pc' = [pc EXCEPT ![r] = "agg_choices"]
                /\ loc' = [loc EXCEPT ![r] =
                              [op |-> "getAllAnswersByEventKey",
                               eventKey |-> eventKey, questions |-> questions,
                               i |-> 1, allAnswers |-> <<>>,
                               tempChoiceArray |-> <<>>]]
    /\ UNCHANGED tables

\* Loop body, first half: the choices of questions[i].
AggregateChoices(r) ==
    /\ pc[r] = "agg_choices"
    /\ \E choicesResult \in
            Unordered(AllChoicesByQuestion(loc[r].questions[loc[r].i].questionId)) :
          loc' = [loc EXCEPT ![r].tempChoiceArray =
                     [n \in DOMAIN choicesResult |-> choicesResult[n].choice_label]]
    /\ pc' = [pc EXCEPT ![r] = "agg_answers"]
    /\ UNCHANGED tables

\* The bundle pushed for a question.
Bundle(question, choices, answers) ==
    [questionId |-> question.questionId,
     questionLabel |-> question.questionLabel,
     choices |-> choices,
     answers |-> answers]

\* Loop body, second half: the answers of questions[i], and the push.
AggregateAnswers(r) ==
    /\ pc[r] = "agg_answers"
    /\ \E answersResult \in
            Unordered(AllAnswersByQuestion(loc[r].questions[loc[r].i].questionId)) :
          LET tempArray == [n \in DOMAIN answersResult |->
                               answersResult[n].answer_label]
              allAnswers == Append(loc[r].allAnswers,
                                   Bundle(loc[r].questions[loc[r].i],
                                          loc[r].tempChoiceArray, tempArray))
          IN  IF loc[r].i = Len(loc[r].questions)
              THEN /\ pc' = [pc EXCEPT ![r] = "done"]
                   /\ loc' = [loc EXCEPT ![r] =
                                 [op |-> "getAllAnswersByEventKey",
                                  eventKey |-> loc[r].eventKey,
                                  ret |-> allAnswers]]
              ELSE /\ pc' = [pc EXCEPT ![r] = "agg_choices"]
                   /\ loc' = [loc EXCEPT ![r].allAnswers = allAnswers,
                                         ![r].i = @ + 1,
                                         ![r].tempChoiceArray = <<>>]
    /\ UNCHANGED tables

(* ------------------------------ next-state ---------------------------- *)

\* The calls the requests issue, with the arguments they are drawn from.
\* cap* bound the rows a table may reach; a call that would go beyond is
\* not issued.

GenerateStart(r, capRooms) ==
    /\ Len(Room) + RoomsInFlight < capRooms
    /\ StartGenerate(r)

GenerateStep(r) == \E token \in Tokens : GenerateAttempt(r, token)

CreateRoomStep(r) ==
    \E name \in RoomNames, presenterId \in Presenters :
        CreateRoomInsert(r, name, presenterId)

CreateQuizStep(r, capQuizzes, roomIds) ==
    /\ Len(Quiz) < capQuizzes
    /\ \E maxDuration \in Durations, title \in Titles, roomId \in roomIds :
          CreateQuizInsert(r, maxDuration, title, roomId)

CreateQuestionStep(r, capQuestions, capChoices, quizIds, answers, lists) ==
    /\ Len(Question) < capQuestions
    /\ \E questionLabel \in QuestionLabels,
          correctAnswer \in answers,
          quizId \in quizIds,
          choiceLabels \in lists :
          /\ Len(Choice) + PendingChoices + ChoicesInFlight(choiceLabels)
                 <= capChoices
          /\ CreateQuestionInsert(r, questionLabel, correctAnswer, quizId,
                                  choiceLabels)

UpdateQuizStep(r, capQuizzes) ==
    \E quizId \in 1..capQuizzes, maxDuration \in NewDurations, title \in NewTitles :
        UpdateQuizUpdate(r, quizId, maxDuration, title)

UpdateQuestionStep(r, capQuestions) ==
    \E questionId \in 1..capQuestions,
       questionLabel \in NewQuestionLabels,
       correctAnswer \in NewCorrectAnswers \cup {Undefined} :
        UpdateQuestionUpdate(r, questionId, questionLabel, correctAnswer)

CreateAnswerStep(r, capAnswers, questionIds) ==
    /\ Len(AnswerEntry) < capAnswers
    /\ \E questionId \in questionIds,
          participantId \in Participants,
          answerLabel \in AnswerLabels :
          CreateAnswer(r, questionId, participantId, answerLabel)

AggregateStep(r) == \E eventKey \in Tokens : AggregateQuestions(r, eventKey)

Presenter == "r1"
Participant == "r2"

\* All the operations: the presenter's request creates and edits the content
\* of one room while the participant's request submits answers (also for a
\* question id that is not stored) and reads the aggregation.
Next ==
    \/ GenerateStart(Presenter, MaxRooms)
    \/ GenerateStep(Presenter)
    \/ CreateRoomStep(Presenter)
    \/ CreateRoomReread(Presenter)
    \/ CreateQuizStep(Presenter, MaxQuizzes, {1})
    \/ CreateQuizReread(Presenter)
    \/ CreateQuestionStep(Presenter, MaxQuestions, MaxChoices, {1},
                          CorrectAnswers, {NoChoiceLabels, <<"a", "b">>})
    \/ CreateQuestionReread(Presenter)
    \/ CreateChoiceInsert(Presenter)
    \/ CreateChoiceFail(Presenter)
    \/ UpdateQuizStep(Presenter, MaxQuizzes)
    \/ UpdateQuizReread(Presenter)
    \/ UpdateQuestionStep(Presenter, MaxQuestions)
    \/ UpdateQuestionReread(Presenter)
    \/ CreateAnswerStep(Participant, MaxAnswers, 1..(MaxQuestions + 1))
    \/ AggregateStep(Participant)
    \/ AggregateChoices(Participant)
    \/ AggregateAnswers(Participant)

Spec == Init /\ [][Next]_vars

\* Answers and aggregation: the presenter's request builds rooms, quizzes
\* and questions while the participant's request answers the first question
\* and aggregates.
NextAgg ==
    \/ GenerateStart(Presenter, AggMaxRooms)
    \/ GenerateStep(Presenter)
    \/ CreateRoomStep(Presenter)
    \/ CreateRoomReread(Presenter)
    \/ CreateQuizStep(Presenter, AggMaxQuizzes, ParentIds)
    \/ CreateQuizReread(Presenter)
    \/ CreateQuestionStep(Presenter, AggMaxQuestions, AggMaxChoices, ParentIds,
                          {Undefined}, {NoChoiceLabels, <<"a">>})
    \/ CreateQuestionReread(Presenter)
    \/ CreateChoiceInsert(Presenter)
    \/ CreateAnswerStep(Participant, AggMaxAnswers, {1})
    \/ AggregateStep(Participant)
    \/ AggregateChoices(Participant)
    \/ AggregateAnswers(Participant)

SpecAgg == Init /\ [][NextAgg]_vars

\* Two requests that create rooms.
NextKeys ==
    \E r \in Req :
        \/ GenerateStart(r, KeysMaxRooms)
        \/ GenerateStep(r)
        \/ CreateRoomStep(r)
        \/ CreateRoomReread(r)

SpecKeys == Init /\ [][NextKeys]_vars

\* Two requests that call createQuiz and createQuestion.
NextRace ==
    \E r \in Req :
        \/ CreateQuizStep(r, RaceMaxQuizzes, ParentIds)
        \/ CreateQuizReread(r)
        \/ CreateQuestionStep(r, RaceMaxQuestions, 0, ParentIds,
                              CorrectAnswers \cup {Undefined}, {NoChoiceLabels})
        \/ CreateQuestionReread(r)

SpecRace == Init /\ [][NextRace]_vars

\* Two requests that call createQuestionAndChoices (with a correct answer)
\* and updateQuestion on
\* one quiz.
NextQuestion ==
    \E r \in Req :
        \/ CreateQuestionStep(r, EditMaxQuestions, EditMaxChoices, {1},
                              CorrectAnswers,
                              ChoiceLabelLists \cup {NoChoiceLabels})
        \/ CreateQuestionReread(r)
        \/ CreateChoiceInsert(r)
        \/ CreateChoiceFail(r)
        \/ UpdateQuestionStep(r, EditMaxQuestions)
        \/ UpdateQuestionReread(r)

SpecQuestion == Init /\ [][NextQuestion]_vars

\* Key generation under a fair generator: every token keeps being drawn
\* while a call is in its loop, and every query is answered.
SpecLive ==
    /\ Init
    /\ [][NextKeys]_vars
    /\ \A r \in Req : \A token \in Tokens : WF_vars(GenerateAttempt(r, token))

(* ------------------------------ properties ---------------------------- *)

\* Some Room row has the token as its event_key.
KeyStored(token) == \E m \in DOMAIN Room : Room[m].event_key = token

IsPrefix(s, t) == Len(s) <= Len(t) /\ SubSeq(t, 1, Len(s)) = s

Column(rows, Field(_)) == [n \in DOMAIN rows |-> Field(rows[n])]

\* The AnswerEntry and Choice rows of a question id, in insertion order.
StoredAnswers(questionId) ==
    SelectSeq(AnswerEntry, LAMBDA row : row.question_id = questionId)

StoredChoices(questionId) ==
    SelectSeq(Choice, LAMBDA row : row.question_id = questionId)

\* The bundles a getAllAnswersByEventKey call has pushed so far.
Pushed(l) == IF "ret" \in DOMAIN l THEN l.ret ELSE l.allAnswers

\* C1: the bundle pushed for a question holds one answer label per stored
\* AnswerEntry row of the question, in the order the rows were inserted.
AnswersInSubmissionOrder ==
    [][\A r \in Req :
          (pc[r] = "agg_answers" /\ loc'[r] # loc[r]) =>
              Last(Pushed(loc'[r])).answers =
                  Column(StoredAnswers(loc[r].questions[loc[r].i].questionId),
                         LAMBDA row : row.answer_label)]_vars

\* The ids of the questions that belong to a quiz of a room with the key.
RoomQuestionIds(eventKey) ==
    { Question[qn].question_id : qn \in
        { i \in DOMAIN Question :
            \E qz \in DOMAIN Quiz : \E m \in DOMAIN Room :
                /\ Question[i].quiz_id = Quiz[qz].quiz_id
                /\ Quiz[qz].room_id = Room[m].room_id
                /\ Room[m].event_key = eventKey } }

Ascending(ids) == \A a, b \in DOMAIN ids : a < b => ids[a] < ids[b]

Range(f) == { f[x] : x \in DOMAIN f }

\* C2: the first query yields every question of the key's room once, in
\* ascending id order (none for a key without room or questions); every
\* question of that list gets its bundle, in that order, and the bundle of a
\* question without choices and answers has empty lists.
OneBundlePerQuestion ==
    [][\A r \in Req :
          LET l == loc[r]
              n == loc'[r]
              agg == "getAllAnswersByEventKey"
          IN  /\ (Free(r) /\ n.op = agg /\ <<pc'[r], n>> # <<pc[r], l>>) =>
                    LET ids == IF pc'[r] = "done" THEN <<>>
                               ELSE Column(n.questions, LAMBDA q : q.questionId)
                    IN  /\ Ascending(ids)
                        /\ Range(ids) = RoomQuestionIds(n.eventKey)
                        /\ Len(ids) = Cardinality(RoomQuestionIds(n.eventKey))
                        /\ Pushed(n) = <<>>
              /\ (pc[r] = "agg_choices" /\ n # l) =>
                    /\ Pushed(n) = Pushed(l)
                    /\ (StoredChoices(l.questions[l.i].questionId) = <<>>
                           => n.tempChoiceArray = <<>>)
              /\ (pc[r] = "agg_answers" /\ n # l) =>
                    /\ Len(Pushed(n)) = l.i
                    /\ IsPrefix(Pushed(l), Pushed(n))
                    /\ Last(Pushed(n)).questionId = l.questions[l.i].questionId
                    /\ Last(Pushed(n)).choices = l.tempChoiceArray
                    /\ (StoredAnswers(l.questions[l.i].questionId) = <<>>
                           => Last(Pushed(n)).answers = <<>>)
                    /\ (pc'[r] = "done") = (l.i = Len(l.questions))]_vars

\* A finished aggregation with two bundles, the first with an answer and
\* the second with neither choices nor answers.
TwoBundlesOneEmpty ==
    \E r \in Req :
        /\ pc[r] = "done"
        /\ loc[r].op = "getAllAnswersByEventKey"
        /\ Len(loc[r].ret) = 2
        /\ loc[r].ret[1].answers # <<>>
        /\ loc[r].ret[2].choices = <<>>
        /\ loc[r].ret[2].answers = <<>>

\* C3: no two Room rows have the same event_key.
UniqueEventKeys ==
    \A i, j \in DOMAIN Room : Room[i].event_key = Room[j].event_key => i = j

\* C4: generateUniqueEventKey returns a token only when the lookup of that
\* token found no Room row, and goes round its loop again exactly when the
\* token it drew is a stored key.
GeneratedKeyIsFresh ==
    [][\A r \in Req :
          (pc[r] = "gen" /\ loc'[r] # loc[r]) =>
              /\ pc'[r] = "keyed" => ~KeyStored(loc'[r].eventKey)
              /\ pc'[r] = "gen" => KeyStored(loc'[r].eventKey)]_vars

\* generateUniqueEventKey has returned after an iteration that collided.
ReturnedAfterCollision ==
    \E r \in Req : pc[r] = "keyed" /\ loc[r].collided

\* The Choice rows a createQuestionAndChoices call inserted.
ChoicesOf(r) == SelectSeq(Choice, LAMBDA row : row.by = <<r, loc[r].mine>>)

\* C5: a finished createQuestionAndChoices call has inserted one Choice row
\* per label it was given (none without labels), each with the id of the
\* question the call inserted.
ChoicesBelongToOwnQuestion ==
    \A r \in Req :
        (pc[r] = "done" /\ loc[r].op = "createQuestionAndChoices") =>
            /\ Column(ChoicesOf(r), LAMBDA row : row.choice_label) =
                   (IF loc[r].choiceLabels = NoChoiceLabels THEN <<>>
                    ELSE loc[r].choiceLabels)
            /\ \A n \in DOMAIN ChoicesOf(r) :
                   ChoicesOf(r)[n].question_id = loc[r].mine

\* C6: an updateQuestion without correct answer leaves every row's
\* correct_answer, quiz_id and question_id as stored, and every field of the
\* rows of other question ids.
LabelOnlyUpdate ==
    [][\A r \in Req :
          (Free(r) /\ pc'[r] = "question_updated"
                   /\ loc'[r].correctAnswer = Undefined) =>
              /\ Len(Question') = Len(Question)
              /\ \A i \in DOMAIN Question :
                    /\ Question'[i].correct_answer = Question[i].correct_answer
                    /\ Question'[i].quiz_id = Question[i].quiz_id
                    /\ Question'[i].question_id = Question[i].question_id
                    /\ Question[i].question_id # loc'[r].questionId
                           => Question'[i] = Question[i]]_vars

\* A label-only update has run on a question that has a correct answer.
LabelUpdatedAnswerKept ==
    \E r \in Req :
        /\ pc[r] = "question_updated"
        /\ loc[r].correctAnswer = Undefined
        /\ \E i \in DOMAIN Question :
              /\ Question[i].question_id = loc[r].questionId
              /\ Question[i].question_label \in NewQuestionLabels
              /\ Question[i].correct_answer \in CorrectAnswers

\* The id of the row a createQuiz or createQuestion call returned.
ReturnedId(l) ==
    IF l.op = "createQuiz" THEN l.ret[1].quiz_id ELSE l.ret[1].question_id

\* C7: a createQuiz or createQuestion call returns the row it inserted
\* unless another insert under the same parent ran between its insert and
\* its reread.
OwnRowUnlessInterleaved ==
    \A r \in Req :
        (pc[r] = "done" /\ loc[r].op \in {"createQuiz", "createQuestionAndChoices"}
                        /\ ~loc[r].interfered) =>
            /\ Len(loc[r].ret) = 1
            /\ ReturnedId(loc[r]) = loc[r].mine

\* A call has returned the row another call inserted under the same parent.
ReturnedOtherRow ==
    \E r \in Req :
        /\ pc[r] = "done"
        /\ loc[r].op \in {"createQuiz", "createQuestionAndChoices"}
        /\ loc[r].interfered
        /\ ReturnedId(loc[r]) # loc[r].mine

\* C8: every createAnswer call appends one AnswerEntry row, and every step
\* keeps the stored AnswerEntry and Choice rows as they are.
AppendOnly ==
    [][/\ IsPrefix(AnswerEntry, AnswerEntry')
       /\ IsPrefix(Choice, Choice')
       /\ \A r \in Req :
             (loc'[r].op = "createAnswer" /\ loc'[r] # loc[r]) =>
                 Len(AnswerEntry') = Len(AnswerEntry) + 1]_vars

\* Two answers of one participant to a question id that is not stored, next
\* to stored Choice rows.
DuplicateAnswersNoQuestion ==
    /\ Choice # <<>>
    /\ \E i, j \in DOMAIN AnswerEntry :
          /\ i < j
          /\ AnswerEntry[i].question_id = AnswerEntry[j].question_id
          /\ AnswerEntry[i].participant_id = AnswerEntry[j].participant_id
          /\ \A q \in DOMAIN Question :
                Question[q].question_id # AnswerEntry[i].question_id

\* C9: after the insert of the i-th label failed, the call's first i-1
\* Choice rows and its Question row are stored and the call inserts no more.
FailureKeepsEarlierRows ==
    \A r \in Req :
        pc[r] = "failed" =>
            /\ Column(ChoicesOf(r), LAMBDA row : row.choice_label) =
                   SubSeq(loc[r].choiceLabels, 1, loc[r].idx - 1)
            /\ \E q \in DOMAIN Question : Question[q].question_id = loc[r].mine

\* The insert of a call's second label has failed.
SecondInsertFailed ==
    \E r \in Req : pc[r] = "failed" /\ loc[r].idx = 2

AllTaken == \A token \in Tokens : KeyStored(token)

\* C10: a call in the loop returns unless every token is a stored key; it
\* has gone round the loop only after a collision; with every token stored
\* it stays in the loop.
GenerateTerminates ==
    /\ \A r \in Req : (pc[r] = "gen") ~> (pc[r] = "keyed" \/ AllTaken)
    /\ [][\A r \in Req :
             /\ (pc[r] = "gen" /\ AllTaken) => pc'[r] = "gen"
             /\ (pc[r] = "gen" /\ pc'[r] = "gen" /\ loc'[r] # loc[r])
                    => KeyStored(loc'[r].eventKey)]_vars

\* A call is in its loop, has collided, and no token is free.
LoopingWithoutFreeToken ==
    \E r \in Req : pc[r] = "gen" /\ loc[r].collided /\ AllTaken

====
